---- MODULE Spec2Model ----
(***************************************************************************)
(* Model of aain_config.py: the AAINConfig dataclass (its fields, defaults,*)
(* to_dict and from_dict) and ConfigManager (construction, _validate_config*)
(* and update_config).                                                     *)
(*                                                                         *)
(* Numbers are fixed-point, in thousandths: the Python value x is the      *)
(* integer 1000 * x (0.001 is 1, 0.95 is 950, 1 is 1000, 32 is 32000).     *)
(* A Python dict is a sequence of <<key, value>> pairs with distinct keys, *)
(* in insertion order.  An object is the function from the names in its    *)
(* instance __dict__ to their values; the attributes it finds on its class *)
(* are ClassAttrs.                                                         *)
(***************************************************************************)
EXTENDS Integers, Sequences, FiniteSets

VARIABLES
    env,      \* FIRESTORE_PROJECT_ID as os.getenv saw it at class definition
    config,   \* config_manager.config: the record the manager owns
    raised,   \* what the last manager operation raised, "none" if it returned
    call,     \* <<c>>: the caller's frame of the operation that just ended
              \* (its name, its argument, the record and the outcome before
              \* it, the lines it logged); << >> once the caller has moved on
    data,     \* <<d>>: the dict the caller hands to from_dict; << >>: none
    built,    \* <<r>>: the record from_dict returned for data; << >>: none
    dictErr,  \* what from_dict raised for data, "none" if it did not raise
    dumped,   \* <<d>>: what to_dict returned for the record built; << >>: none
    rebuilt   \* <<r>>: the record from_dict returned for dumped; << >>: none

vars == <<env, config, raised, call, data, built, dictErr, dumped, rebuilt>>

\* The longest dict handed to update_config or from_dict.
MaxKeys == 2

----------------------------------------------------------------------------
\* AAINConfig

\* The dataclass fields, in declaration order.
FieldOrder ==
    << "firestore_project_id", "firestore_collection",
       "rl_learning_rate", "rl_discount_factor", "rl_exploration_rate",
       "rl_batch_size", "rl_memory_capacity",
       "health_check_interval", "metrics_aggregation_window",
       "performance_threshold",
       "max_connection_pool", "min_throughput", "max_latency",
       "ml_model_path", "retrain_interval" >>

Fields == {FieldOrder[i] : i \in DOMAIN FieldOrder}

\* What an AAINConfig instance finds on its class besides the fields.
ClassAttrs == {"to_dict", "from_dict"}

\* The values os.getenv('FIRESTORE_PROJECT_ID', 'evolution-ecosystem') can give.
EnvProjectIds == {"evolution-ecosystem", "env-project"}

\* AAINConfig(): every field at its declared default.
DefaultConfig(projectId) ==
    [ firestore_project_id       |-> projectId,
      firestore_collection       |-> "aain_integrations",
      rl_learning_rate           |-> 1,
      rl_discount_factor         |-> 950,
      rl_exploration_rate        |-> 100,
      rl_batch_size              |-> 32000,
      rl_memory_capacity         |-> 10000000,
      health_check_interval      |-> 30000,
      metrics_aggregation_window |-> 300000,
      performance_threshold      |-> 800,
      max_connection_pool        |-> 100000,
      min_throughput             |-> 100000,
      max_latency                |-> 2000,
      ml_model_path              |-> "models/integration_predictor.pkl",
      retrain_interval           |-> 86400000 ]

\* The keys of a dict.
Keys(d) == {d[i][1] : i \in DOMAIN d}

\* d[key], for a key of d.
Lookup(d, key) == d[CHOOSE i \in DOMAIN d : d[i][1] = key][2]

\* to_dict losing the last declared field.
ToDict_DropsLast(obj) ==
    [i \in 1..(Len(FieldOrder) - 1) |-> <<FieldOrder[i], obj[FieldOrder[i]]>>]

\* asdict(self): one entry per dataclass field, in declaration order, read
\* from the instance.
ToDict(obj) ==
    [i \in DOMAIN FieldOrder |-> <<FieldOrder[i], obj[FieldOrder[i]]>>]

\* from_dict dropping the keys it does not know, as update_config does.
FromDictRaises_Lenient(d) == "none"

\* cls(**d) raises TypeError for a keyword that is no __init__ parameter.
FromDictRaises(d) ==
    IF Keys(d) \subseteq Fields THEN "none" ELSE "TypeError"

\* cls(**d): the fields d names take its values, the others their defaults.
FromDictRecord(d, projectId) ==
    [f \in Fields |->
        IF f \in Keys(d) THEN Lookup(d, f) ELSE DefaultConfig(projectId)[f]]

----------------------------------------------------------------------------
\* ConfigManager

\* hasattr(obj, key): in the instance __dict__ or found on the class.
HasAttr(obj, key) == key \in DOMAIN obj \/ key \in ClassAttrs

\* setattr(obj, key, value): binds key in the instance __dict__.
SetAttr(obj, key, value) ==
    [k \in DOMAIN obj \cup {key} |-> IF k = key THEN value ELSE obj[k]]

\* The range test with the upper bound excluded.
OutOfRange_ExclusiveUpper(v) == v <= 0 \/ v >= 1000

\* The test of each if in _validate_config: v <= 0 or v > 1.
OutOfRange(v) == v <= 0 \/ v > 1000

MsgLearningRate == "RL learning rate must be between 0 and 1"
MsgDiscountFactor == "RL discount factor must be between 0 and 1"
MsgThreshold == "Performance threshold must be between 0 and 1"

\* The fields _validate_config tests.
CheckedFields ==
    {"rl_learning_rate", "rl_discount_factor", "performance_threshold"}

\* _validate_config without its third test.
ValidateConfig_NoThreshold(c) ==
    IF OutOfRange(c.rl_learning_rate) THEN MsgLearningRate
    ELSE IF OutOfRange(c.rl_discount_factor) THEN MsgDiscountFactor
    ELSE "none"

\* _validate_config testing the threshold first.
ValidateConfig_ThresholdFirst(c) ==
    IF OutOfRange(c.performance_threshold) THEN MsgThreshold
    ELSE IF OutOfRange(c.rl_learning_rate) THEN MsgLearningRate
    ELSE IF OutOfRange(c.rl_discount_factor) THEN MsgDiscountFactor
    ELSE "none"

\* _validate_config testing the exploration rate as well.
ValidateConfig_ChecksExploration(c) ==
    IF OutOfRange(c.rl_learning_rate) THEN MsgLearningRate
    ELSE IF OutOfRange(c.rl_discount_factor) THEN MsgDiscountFactor
    ELSE IF OutOfRange(c.performance_threshold) THEN MsgThreshold
    ELSE IF OutOfRange(c.rl_exploration_rate) THEN "RL exploration rate"
    ELSE "none"

\* _validate_config: the message of the ValueError it raises, "none" if it
\* returns.
ValidateConfig(c) ==
    IF OutOfRange(c.rl_learning_rate) THEN MsgLearningRate
    ELSE IF OutOfRange(c.rl_discount_factor) THEN MsgDiscountFactor
    ELSE IF OutOfRange(c.performance_threshold) THEN MsgThreshold
    ELSE "none"

\* What _validate_config logs.
ValidateLog(c) ==
    IF ValidateConfig(c) = "none"
    THEN << <<"INFO", "Configuration validation passed">> >>
    ELSE << >>

\* The loop validating each value as it goes and stopping at a bad one.
RECURSIVE ApplyUpdates_StopAtInvalid(_, _)
ApplyUpdates_StopAtInvalid(obj, u) ==
    IF u = << >> THEN obj
    ELSE LET key == Head(u)[1]
             value == Head(u)[2]
             next == IF HasAttr(obj, key) THEN SetAttr(obj, key, value)
                                          ELSE obj
         IN  IF key \in CheckedFields /\ OutOfRange(value)
             THEN next
             ELSE ApplyUpdates_StopAtInvalid(next, Tail(u))

\* The loop leaving after its first key.
ApplyUpdates_FirstOnly(obj, u) ==
    IF u = << >> THEN obj
    ELSE LET key == Head(u)[1]
             value == Head(u)[2]
         IN  IF HasAttr(obj, key) THEN SetAttr(obj, key, value) ELSE obj

\* The for loop of update_config: the record after it.
RECURSIVE ApplyUpdates(_, _)
ApplyUpdates(obj, u) ==
    IF u = << >> THEN obj
    ELSE LET key == Head(u)[1]
             value == Head(u)[2]
         IN  ApplyUpdates(IF HasAttr(obj, key) THEN SetAttr(obj, key, value)
                                                ELSE obj,
                          Tail(u))

\* The for loop of update_config: the warnings it logs.
RECURSIVE LoopLog(_, _)
LoopLog(obj, u) ==
    IF u = << >> THEN << >>
    ELSE LET key == Head(u)[1]
             value == Head(u)[2]
         IN  IF HasAttr(obj, key)
             THEN LoopLog(SetAttr(obj, key, value), Tail(u))
             ELSE << <<"WARNING", key>> >> \o LoopLog(obj, Tail(u))

\* A caller's frame.
Frame(op, u, lines) ==
    [op |-> op, updates |-> u, old |-> config, before |-> raised,
     logged |-> lines]

\* update_config validating only when u names a validated field.
UpdateConfig_ValidateNamedOnly(u) ==
    LET after == ApplyUpdates(config, u)
        err == IF Keys(u) \cap CheckedFields = {} THEN "none"
               ELSE ValidateConfig(after)
        lines == LoopLog(config, u)
    IN  /\ call = << >>
        /\ call' = << Frame("update_config", u, lines) >>
        /\ config' = after
        /\ raised' = err
        /\ UNCHANGED <<env, data, built, dictErr, dumped, rebuilt>>

\* update_config(u): the loop, then _validate_config, then the info line.
UpdateConfig(u) ==
    LET after == ApplyUpdates(config, u)
        err == ValidateConfig(after)
        lines == LoopLog(config, u) \o ValidateLog(after)
                    \o (IF err = "none"
                        THEN << <<"INFO", "Configuration updated">> >>
                        ELSE << >>)
    IN  /\ call = << >>
        /\ call' = << Frame("update_config", u, lines) >>
        /\ config' = after
        /\ raised' = err
        /\ UNCHANGED <<env, data, built, dictErr, dumped, rebuilt>>

\* update_config has returned or raised and the caller moves on: its frame
\* of the call is gone.
Return ==
    /\ call # << >>
    /\ call' = << >>
    /\ UNCHANGED <<env, config, raised, data, built, dictErr, dumped, rebuilt>>

\* AAINConfig.from_dict(data).
FromDictData ==
    /\ data # << >>
    /\ built = << >>
    /\ dictErr = "none"
    /\ dictErr' = FromDictRaises(data[1])
    /\ built' = IF FromDictRaises(data[1]) = "none"
                THEN << FromDictRecord(data[1], env) >>
                ELSE << >>
    /\ UNCHANGED <<env, config, raised, call, data, dumped, rebuilt>>

\* r.to_dict(), r the record from_dict built.
ToDictBuilt ==
    /\ built # << >>
    /\ dumped = << >>
    /\ dumped' = << ToDict(built[1]) >>
    /\ UNCHANGED <<env, config, raised, call, data, built, dictErr, rebuilt>>

\* AAINConfig.from_dict(r.to_dict()).
FromDictDumped ==
    /\ dumped # << >>
    /\ rebuilt = << >>
    /\ FromDictRaises(dumped[1]) = "none"
    /\ rebuilt' = << FromDictRecord(dumped[1], env) >>
    /\ UNCHANGED <<env, config, raised, call, data, built, dictErr, dumped>>

\* The manager is given the record from_dict built and runs
\* _validate_config on it.
ValidateBuilt ==
    /\ built # << >>
    /\ call = << >>
    /\ call' = << Frame("validate", << >>, ValidateLog(built[1])) >>
    /\ config' = built[1]
    /\ raised' = ValidateConfig(built[1])
    /\ UNCHANGED <<env, data, built, dictErr, dumped, rebuilt>>

----------------------------------------------------------------------------
\* Inputs

\* The values tried for each key.
ValuesOf(key) ==
    CASE key = "rl_learning_rate" -> {500, 2000}
      [] key = "rl_discount_factor" -> {-500, 500}
      [] key = "performance_threshold" -> {0, 1000, 1500}
      [] key = "rl_exploration_rate" -> {-500}
      [] key = "rl_batch_size" -> {0, 2000000000}
      [] key \in {"firestore_project_id", "firestore_collection",
                  "ml_model_path"} -> {"other"}
      [] OTHER -> {0}

ItemsOf(keys) == UNION { {<<k, v>> : v \in ValuesOf(k)} : k \in keys }

\* The dicts of at most MaxKeys of the given items.
DictsOf(items) ==
    { d \in UNION { [1..n -> items] : n \in 0..MaxKeys } :
        \A i, j \in DOMAIN d : i # j => d[i][1] # d[j][1] }

\* The keys update_config is called with: the three validated fields, two
\* other fields, a name found on the class and a name found nowhere.
UpdateKeys ==
    { "rl_learning_rate", "rl_discount_factor", "performance_threshold",
      "rl_exploration_rate", "rl_batch_size",
      "to_dict", "nonexistent_field" }

UpdateInputs == DictsOf(ItemsOf(UpdateKeys))

\* The keys from_dict is called with: every field and the two other names.
DictInputs == DictsOf(ItemsOf(Fields \cup {"to_dict", "nonexistent_field"}))

----------------------------------------------------------------------------
\* The manager, from module load on: config_manager = ConfigManager()

Init ==
    /\ env \in EnvProjectIds
    /\ config = DefaultConfig(env)
    /\ raised = ValidateConfig(config)
    /\ call = << >>
    /\ data = << >>
    /\ built = << >>
    /\ dictErr = "none"
    /\ dumped = << >>
    /\ rebuilt = << >>

\* A caller calls update_config.
Update == call = << >> /\ \E u \in UpdateInputs : UpdateConfig(u)

Next ==
    \/ Update
    \/ Return

Spec == Init /\ [][Next]_vars

\* from_dict on a dict of the caller's, then to_dict, from_dict and
\* validation of the record it built

InitDict ==
    /\ env \in EnvProjectIds
    /\ config = DefaultConfig(env)
    /\ raised = ValidateConfig(config)
    /\ call = << >>
    /\ data \in {<<d>> : d \in DictInputs}
    /\ built = << >>
    /\ dictErr = "none"
    /\ dumped = << >>
    /\ rebuilt = << >>

NextDict ==
    \/ FromDictData
    \/ ToDictBuilt
    \/ FromDictDumped
    \/ ValidateBuilt

SpecDict == InitDict /\ [][NextDict]_vars

----------------------------------------------------------------------------
\* Properties

\* v lies in (0, 1].
InUnit(v) == 0 < v /\ v <= 1000

\* All three validated fields of c lie in (0, 1].
Valid(c) == \A f \in CheckedFields : InUnit(c[f])

\* An update_config call has just ended.
AfterUpdate == call # << >> /\ call[1].op = "update_config"

\* Every declared field u names holds the value u gives it.
Applied(u) == \A i \in DOMAIN u : u[i][1] \in Fields => config[u[i][1]] = u[i][2]

\* Every declared field u does not name is as it was in c.
OthersKept(u, c) == \A f \in Fields \ Keys(u) : config[f] = c[f]

\* C1, as stated: in every state after construction and after any
\* update_config call, returned or raised, rl_learning_rate,
\* rl_discount_factor and performance_threshold lie in (0, 1].
C1_AlwaysInRange == Valid(config)

\* C1, amended: after construction and after every update_config call that
\* returned normally the three fields lie in (0, 1]; after a call that
\* raised, at least one of them does not.
C1_InRangeWhenReturned ==
    /\ raised = "none" => Valid(config)
    /\ raised # "none" => ~Valid(config)

\* An update_config call that changed a validated field has returned.
C1_Witness ==
    /\ AfterUpdate
    /\ raised = "none"
    /\ \E f \in CheckedFields : config[f] # call[1].old[f]

\* C2: an update_config call on a valid manager whose dict gives an
\* out-of-range value to a validated field raises, and every declared field
\* the dict names, before or after the offending key, holds the value given.
C2_NoRollback ==
    AfterUpdate =>
        LET u == call[1].updates
        IN  ( /\ Valid(call[1].old)
              /\ \E i \in DOMAIN u :
                    u[i][1] \in CheckedFields /\ ~InUnit(u[i][2]) )
            => raised # "none" /\ Applied(u) /\ OthersKept(u, call[1].old)

\* update_config({rl_learning_rate: 2.0, rl_discount_factor: 0.5}) has
\* raised on a valid manager.
C2_Witness ==
    /\ AfterUpdate
    /\ Valid(call[1].old)
    /\ call[1].updates = << <<"rl_learning_rate", 2000>>,
                            <<"rl_discount_factor", 500>> >>
    /\ raised = MsgLearningRate

\* C3, as stated: update_config skips every key that is no declared field:
\* the record gains no attribute and each attribute is as it was, unless it
\* is a declared field the dict names, which holds the value given.
C3_NonFieldKeysSkipped ==
    AfterUpdate =>
        LET u == call[1].updates
            c == call[1].old
        IN  /\ DOMAIN config = DOMAIN c
            /\ \A a \in DOMAIN c :
                  config[a] = IF a \in Fields \cap Keys(u) THEN Lookup(u, a)
                                                           ELSE c[a]

\* C4: an update_config call on a valid manager whose dict gives in-range
\* values to the validated fields it names returns, every declared field it
\* names holds the value given, the others are unchanged, and the record is
\* valid.
C4_ValidUpdate ==
    AfterUpdate =>
        LET u == call[1].updates
        IN  ( /\ Valid(call[1].old)
              /\ \A i \in DOMAIN u :
                    u[i][1] \in CheckedFields => InUnit(u[i][2]) )
            => /\ raised = "none"
               /\ Applied(u)
               /\ OthersKept(u, call[1].old)
               /\ Valid(config)

\* A call naming a validated field and another field has returned.
C4_Witness ==
    /\ AfterUpdate
    /\ raised = "none"
    /\ call[1].updates = << <<"rl_batch_size", 2000000000>>,
                            <<"performance_threshold", 1000>> >>

\* C5: the error names the first field out of range in the order
\* rl_learning_rate, rl_discount_factor, performance_threshold, whatever the
\* order of the keys in the dict.
C5_FirstInFixedOrder ==
    /\ ~InUnit(config.rl_learning_rate) => raised = MsgLearningRate
    /\ InUnit(config.rl_learning_rate) /\ ~InUnit(config.rl_discount_factor)
          => raised = MsgDiscountFactor
    /\ InUnit(config.rl_learning_rate) /\ InUnit(config.rl_discount_factor)
          /\ ~InUnit(config.performance_threshold)
          => raised = MsgThreshold

\* A dict naming the threshold before the learning rate, both out of range,
\* has raised.
C5_Witness ==
    /\ AfterUpdate
    /\ call[1].updates = << <<"performance_threshold", 0>>,
                            <<"rl_learning_rate", 2000>> >>
    /\ raised = MsgLearningRate

\* C6: to_dict returns exactly the declared fields with the record's values
\* and leaves the record as it was, and from_dict of that dict is a record
\* equal to it field for field.
C6_RoundTrip ==
    /\ dumped # << >> =>
          /\ Len(dumped[1]) = Cardinality(Fields)
          /\ Keys(dumped[1]) = Fields
          /\ \A f \in Fields : Lookup(dumped[1], f) = built[1][f]
          /\ built[1] = FromDictRecord(data[1], env)
          /\ FromDictRaises(dumped[1]) = "none"
    /\ rebuilt # << >> =>
          /\ DOMAIN rebuilt[1] = Fields
          /\ \A f \in Fields : rebuilt[1][f] = built[1][f]

\* A record with values other than the defaults has made the round trip.
C6_Witness ==
    /\ rebuilt # << >>
    /\ built[1].performance_threshold = 1500
    /\ built[1].firestore_collection = "other"

\* C7: from_dict gives the declared fields its dict names the values
\* supplied and the others their defaults; given a key that is no declared
\* field it raises and builds no record.
C7_FromDict ==
    (built # << >> \/ dictErr # "none") =>
        LET d == data[1]
        IN  IF Keys(d) \subseteq Fields
            THEN /\ dictErr = "none"
                 /\ built # << >>
                 /\ DOMAIN built[1] = Fields
                 /\ \A f \in Fields :
                       built[1][f] = IF f \in Keys(d) THEN Lookup(d, f)
                                      ELSE DefaultConfig(env)[f]
            ELSE dictErr # "none" /\ built = << >>

\* from_dict has raised for a dict with a declared field and an unknown key.
C7_Witness ==
    /\ dictErr # "none"
    /\ built = << >>
    /\ "nonexistent_field" \in Keys(data[1])
    /\ Keys(data[1]) \cap Fields # {}

\* C8: a record built from a dict with performance_threshold 1.0 passes
\* validation; built with 0 or 1.5 it fails validation.
C8_Boundary ==
    ( /\ call # << >>
      /\ call[1].op = "validate"
      /\ "performance_threshold" \in Keys(data[1])
      /\ Keys(data[1]) \cap {"rl_learning_rate", "rl_discount_factor"} = {} )
    => LET v == Lookup(data[1], "performance_threshold")
       IN  /\ v = 1000 => raised = "none"
           /\ v \in {0, 1500} => raised = MsgThreshold

\* A record built with performance_threshold 1.0 has been validated.
C8_Witness ==
    /\ call # << >>
    /\ call[1].op = "validate"
    /\ data[1] = << <<"performance_threshold", 1000>> >>
    /\ raised = "none"

\* C9: on a valid manager, an update_config call that names none of the
\* three validated fields and gives any value to other declared fields
\* returns and applies the values.
C9_OnlyThreeChecked ==
    AfterUpdate =>
        LET u == call[1].updates
        IN  ( /\ Valid(call[1].old)
              /\ Keys(u) \cap CheckedFields = {}
              /\ Keys(u) \cap Fields # {} )
            => raised = "none" /\ Applied(u)

\* A negative exploration rate and a huge batch size have been applied.
C9_Witness ==
    /\ AfterUpdate
    /\ raised = "none"
    /\ config.rl_exploration_rate = -500
    /\ config.rl_batch_size = 2000000000
    /\ Keys(call[1].updates) = {"rl_exploration_rate", "rl_batch_size"}

\* C10: after an update_config call has raised, each later call applies
\* the declared fields it names, raises while one of the three validated
\* fields is out of range, and returns once all three are in range.
C10_RaisesUntilRepaired ==
    (AfterUpdate /\ call[1].before # "none") =>
        /\ Applied(call[1].updates)
        /\ OthersKept(call[1].updates, call[1].old)
        /\ raised # "none" <=> ~Valid(config)

\* After a failed call, update_config({}) has raised again.
C10_Witness ==
    /\ AfterUpdate
    /\ call[1].before # "none"
    /\ call[1].updates = << >>
    /\ raised # "none"

====
